---- MODULE Spec2Model ----
(***************************************************************************)
(* Model of the one-shot maintenance scripts of script_hub:                *)
(*   merge_sync/smart_cleanup.py, local/sync_shadowrocket_config.py,       *)
(*   local/sync_singbox_policy_groups.py, scripts/zip_files.py,            *)
(*   merge_sync/fix_ruleset_policies.py, merge_sync/check_surge_config.py. *)
(* Every script is a sequential batch run; each has a specification of its *)
(* own (SpecCleanup, SpecWriteList, ...) over the shared variables, the    *)
(* variables of the other scripts staying at their idle value.             *)
(*                                                                         *)
(* Text is modelled as a sequence of atoms (a Python str cut into the      *)
(* pieces the scripts look at: separators, keywords, blanks, payload), a   *)
(* text file as the sequence of its lines, each line newline-terminated.   *)
(***************************************************************************)
EXTENDS Integers, Sequences, FiniteSets, TLC

VARIABLES
    pc,            \* position of the running script
    disk,          \* smart_cleanup: RULESET_DIR, file name -> lines or NoFile
    file_content,  \* smart_cleanup.main: file name -> set of rules
    loaded,        \* smart_cleanup.main: what load_list returned (history)
    disk0,         \* smart_cleanup: RULESET_DIR before the last call (history)
    runs,          \* number of calls made so far
    surge_config,  \* the lines of the Surge config file
    db,            \* sync_shadowrocket_config: the rows of config_content
    db0,           \* the rows of config_content before the call (history)
    dry_run,       \* the dry_run argument
    surge_rules,   \* sync_rules: parse_surge_rules(surge_config_path)
    sr_rules,      \* sync_rules: get_shadowrocket_rules(db_path)
    result,        \* what the call returned ("none": not returned yet)
    singbox_config,  \* sync_singbox_policy_groups: the Sing-box config read
    surge_groups,    \* sync_policy_groups: parse_surge_policy_groups(...)
    missing_groups,  \* sync_policy_groups: the groups to add
    written,         \* the configs written to output_file, in order
    source_dir,      \* zip_files: entry name -> [is_file, size, grow]
    listing,         \* zip_files: os.listdir(source_dir)
    files_to_zip,    \* zip_large_directory: the sorted regular files
    next_file,       \* zip_large_directory: position of the for loop
    archives,        \* output_dir: the archives created, in order
    zip_file_count,  \* zip_large_directory: zip_file_count
    current_zip_size,  \* zip_large_directory: current_zip_size
    fixed_count,     \* fix_ruleset / fix_surge_config: fixed_count
    backup           \* check_surge_config: the .backup files written, in order

cleanupVars == <<disk, file_content, loaded, disk0>>
shadowrocketVars == <<surge_config, db, db0, dry_run, surge_rules, sr_rules, result>>
policyVars == <<singbox_config, surge_groups, missing_groups, written>>
zipVars == <<source_dir, listing, files_to_zip, next_file, archives, zip_file_count,
             current_zip_size>>
fixVars == <<fixed_count, backup>>
vars == <<pc, runs, cleanupVars, shadowrocketVars, policyVars, zipVars, fixVars>>

----------------------------------------------------------------------------
(* Python str and list helpers over atom sequences *)

IsSpace(a) == a \in {" ", "\t"}

RECURSIVE LStrip(_)
LStrip(s) == IF s = <<>> THEN s
             ELSE IF IsSpace(Head(s)) THEN LStrip(Tail(s)) ELSE s

RECURSIVE RStrip(_)
RStrip(s) == IF s = <<>> THEN s
             ELSE IF IsSpace(s[Len(s)]) THEN RStrip(SubSeq(s, 1, Len(s) - 1)) ELSE s

Strip(s) == RStrip(LStrip(s))

\* pat is a prefix of s
StartsWith(s, pat) == Len(s) >= Len(pat) /\ SubSeq(s, 1, Len(pat)) = pat

\* pat in s (contiguous)
Contains(s, pat) ==
    \E i \in 1..(Len(s) - Len(pat) + 1) : SubSeq(s, i, i + Len(pat) - 1) = pat

\* s.replace(pat, rep): leftmost non-overlapping occurrences
RECURSIVE Replace(_, _, _)
Replace(s, pat, rep) ==
    IF s = <<>> THEN s
    ELSE IF StartsWith(s, pat)
         THEN rep \o Replace(SubSeq(s, Len(pat) + 1, Len(s)), pat, rep)
         ELSE <<Head(s)>> \o Replace(Tail(s), pat, rep)

\* s.split(sep) for a one-atom separator: the list of fields
RECURSIVE Split(_, _)
Split(s, sep) ==
    IF \A i \in 1..Len(s) : s[i] # sep THEN <<s>>
    ELSE LET k == CHOOSE i \in 1..Len(s) : s[i] = sep /\ \A j \in 1..(i - 1) : s[j] # sep
         IN  <<SubSeq(s, 1, k - 1)>> \o Split(SubSeq(s, k + 1, Len(s)), sep)

\* sep.join(parts)
RECURSIVE Join(_, _)
Join(parts, sep) ==
    IF parts = <<>> THEN <<>>
    ELSE IF Len(parts) = 1 THEN parts[1]
    ELSE parts[1] \o <<sep>> \o Join(Tail(parts), sep)

Range(s) == {s[i] : i \in 1..Len(s)}

\* Python's str order, on the atoms the rules are made of
AtomOrder == <<" ", "#", ",", "//", "DOMAIN", "DOMAIN-SUFFIX", "IP-CIDR", "RULE-SET",
               "a.com", "b.com", "no-resolve", "note">>

AtomRank(a) == CHOOSE i \in 1..Len(AtomOrder) : AtomOrder[i] = a

RECURSIVE StrLess(_, _)
StrLess(s, t) ==
    IF t = <<>> THEN FALSE
    ELSE IF s = <<>> THEN TRUE
    ELSE IF Head(s) = Head(t) THEN StrLess(Tail(s), Tail(t))
    ELSE AtomRank(Head(s)) < AtomRank(Head(t))

\* sorted(list(rules))
RECURSIVE sorted(_)
sorted(S) ==
    IF S = {} THEN <<>>
    ELSE LET m == CHOOSE x \in S : \A y \in S \ {x} : StrLess(x, y)
         IN  <<m>> \o sorted(S \ {m})

----------------------------------------------------------------------------
(* idle values of the variables a script does not use *)

IdleCleanup ==
    /\ disk = <<>> /\ disk0 = <<>> /\ file_content = <<>> /\ loaded = <<>>

IdleInputs == surge_config = <<>> /\ dry_run = FALSE

IdleDatabase ==
    /\ db = {} /\ db0 = {} /\ surge_rules = <<>> /\ sr_rules = <<>> /\ result = "none"

IdleShadowrocket == IdleInputs /\ IdleDatabase

IdlePolicy ==
    /\ singbox_config = <<>> /\ surge_groups = <<>> /\ missing_groups = <<>>
    /\ written = <<>>

IdleZip ==
    /\ source_dir = <<>> /\ listing = <<>> /\ files_to_zip = <<>> /\ next_file = 0
    /\ archives = <<>> /\ zip_file_count = 0 /\ current_zip_size = 0

IdleFix == fixed_count = 0 /\ backup = <<>>

----------------------------------------------------------------------------
(* merge_sync/smart_cleanup.py *)

\* os.path.exists(filepath) is false (a value no file content equals)
NoFile == << <<"<no such file>">> >>

\* dictionary order of CONFLICT_MAP: <<Specific, <<Generic, ...>>>>
CONFLICT_MAP == <<
    <<"AdBlock.list", <<"GlobalProxy.list", "GlobalMedia.list", "SocialMedia.list",
                        "Google.list", "Microsoft.list", "Apple.list",
                        "Twitter.list", "Instagram.list", "Facebook.list",
                        "YouTube.list", "Netflix.list", "Spotify.list">> >>,
    <<"AdBlock_Merged.list", <<"GlobalProxy.list", "GlobalMedia.list", "SocialMedia.list",
                               "Google.list", "Microsoft.list", "Apple.list">> >>,
    <<"Twitter.list", <<"SocialMedia.list", "GlobalMedia.list", "GlobalProxy.list">> >>,
    <<"Instagram.list", <<"SocialMedia.list", "GlobalMedia.list", "GlobalProxy.list">> >>,
    <<"Facebook.list", <<"SocialMedia.list", "GlobalMedia.list", "GlobalProxy.list">> >>,
    <<"Telegram.list", <<"SocialMedia.list", "GlobalMedia.list", "GlobalProxy.list">> >>,
    <<"TikTok.list", <<"SocialMedia.list", "GlobalMedia.list", "GlobalProxy.list">> >>,
    <<"Reddit.list", <<"SocialMedia.list", "GlobalMedia.list", "GlobalProxy.list">> >>,
    <<"YouTube.list", <<"GlobalMedia.list", "GlobalProxy.list", "Google.list">> >>,
    <<"Netflix.list", <<"GlobalMedia.list", "GlobalProxy.list">> >>,
    <<"Spotify.list", <<"GlobalMedia.list", "GlobalProxy.list">> >>,
    <<"Disney.list", <<"GlobalMedia.list", "GlobalProxy.list">> >>,
    <<"Steam.list", <<"Gaming.list", "GlobalProxy.list">> >>,
    <<"Epic.list", <<"Gaming.list", "GlobalProxy.list">> >>,
    <<"OpenAI.list", <<"AI.list", "GlobalProxy.list">> >>,
    <<"Claude.list", <<"AI.list", "GlobalProxy.list">> >>,
    <<"Google.list", <<"GlobalProxy.list">> >>,
    <<"Microsoft.list", <<"GlobalProxy.list">> >>,
    <<"Apple.list", <<"GlobalProxy.list">> >>,
    <<"GitHub.list", <<"GlobalProxy.list">> >>,
    <<"NSFW.list", <<"GlobalProxy.list">> >>
    >>

\* the *.list names RULESET_DIR may hold: those of the map and one outside it
FileNames ==
    {CONFLICT_MAP[i][1] : i \in 1..Len(CONFLICT_MAP)}
    \cup UNION {Range(CONFLICT_MAP[i][2]) : i \in 1..Len(CONFLICT_MAP)}
    \cup {"Manual.list"}

StartsWithDOMAIN(line) ==
    line # <<>> /\ Head(line) \in {"DOMAIN", "DOMAIN-SUFFIX", "DOMAIN-KEYWORD"}

is_valid_rule(line) ==
    IF line # <<>> /\ Head(line) = "RULE-SET" THEN FALSE
    ELSE IF StartsWithDOMAIN(line) /\ Contains(line, <<",", "no-resolve">>) THEN FALSE
    ELSE TRUE

clean_rule(line) ==
    IF StartsWithDOMAIN(line) /\ Contains(line, <<",", "no-resolve">>)
    THEN Replace(line, <<",", "no-resolve">>, <<>>)
    ELSE line

\* the rules load_list adds for one line of the file (none or one)
load_line(raw) ==
    LET line == Strip(raw) IN
    IF line = <<>> \/ Head(line) = "#" \/ Head(line) = "//" THEN {}
    ELSE LET uncommented == IF Contains(line, <<"#">>)
                            THEN Strip(Split(line, "#")[1]) ELSE line
             cleaned == clean_rule(uncommented)
         IN  IF is_valid_rule(cleaned) THEN {cleaned} ELSE {}

load_list(content) ==
    IF content = NoFile THEN {}
    ELSE UNION {load_line(content[i]) : i \in 1..Len(content)}

\* the leading block of '#' and blank lines write_list keeps as existing_header
RECURSIVE existing_header(_)
existing_header(content) ==
    IF content = NoFile \/ content = <<>> THEN <<>>
    ELSE LET line == Head(content) IN
         IF (line # <<>> /\ Head(line) = "#") \/ Strip(line) = <<>>
         THEN <<line>> \o existing_header(Tail(content))
         ELSE <<>>

\* a header of more than this many lines counts as detailed and is kept
DetailedHeader == 5

KeepsHeaderOffByOne(header) == header # <<>> /\ Len(header) > DetailedHeader + 1

KeepsHeader(header) == header # <<>> /\ Len(header) > DetailedHeader

\* the lines of filepath after write_list(filepath, rules)
write_list(filename, content, rules) ==
    LET sorted_rules == sorted(rules)
        header == existing_header(content)
        count == ToString(Len(sorted_rules))
    IN  IF KeepsHeader(header)
        THEN header
             \o << <<"#", " ", "[smart_cleanup.py] Deduplicated:", " ", count, " ", "rules">>,
                   <<>> >>
             \o sorted_rules
        ELSE << <<"#", " ", "Ruleset:", " ", filename>>,
                <<"#", " ", "Cleaned by smart_cleanup.py">>,
                <<"#", " ", "Total:", " ", count>>,
                <<>> >>
             \o sorted_rules

SubtractDropped(generic_rules, specific_rules) == generic_rules

\* file_content[generic_name] -= specific_rules
Subtract(generic_rules, specific_rules) == generic_rules \ specific_rules

\* the inner loop of main over generic_names; specific_rules aliases the set
\* held by file_content[specific_name]
RECURSIVE apply_generics(_, _, _)
apply_generics(fc, specific_name, generic_names) ==
    IF generic_names = <<>> THEN fc
    ELSE LET generic_name == Head(generic_names)
             fc2 == IF generic_name \in DOMAIN fc
                    THEN [fc EXCEPT ![generic_name] =
                              Subtract(fc[generic_name], fc[specific_name])]
                    ELSE fc
         IN  apply_generics(fc2, specific_name, Tail(generic_names))

\* step 2 of main: the entries of CONFLICT_MAP from the i-th on, in order
RECURSIVE apply_conflict_map(_, _)
apply_conflict_map(fc, i) ==
    IF i > Len(CONFLICT_MAP) THEN fc
    ELSE LET specific_name == CONFLICT_MAP[i][1]
             generic_names == CONFLICT_MAP[i][2]
         IN  IF specific_name \notin DOMAIN fc
             THEN apply_conflict_map(fc, i + 1)
             ELSE apply_conflict_map(apply_generics(fc, specific_name, generic_names), i + 1)

\* glob("*.list")
ExistingFiles(d) == {n \in FileNames : d[n] # NoFile}

\* step 1 of main
MainLoad ==
    /\ pc = "main"
    /\ file_content' = [n \in ExistingFiles(disk) |-> load_list(disk[n])]
    /\ loaded' = file_content'
    /\ pc' = "loaded"
    /\ UNCHANGED <<disk, disk0, runs, shadowrocketVars, policyVars, zipVars, fixVars>>

\* step 2 of main
MainSubtract ==
    /\ pc = "loaded"
    /\ file_content' = apply_conflict_map(file_content, 1)
    /\ pc' = "subtracted"
    /\ UNCHANGED <<disk, disk0, loaded, runs, shadowrocketVars, policyVars, zipVars, fixVars>>

\* step 4 of main
MainSave ==
    /\ pc = "subtracted"
    /\ disk' = [n \in FileNames |->
                  IF n \in DOMAIN file_content
                  THEN write_list(n, disk[n], file_content[n])
                  ELSE disk[n]]
    /\ pc' = "done"
    /\ UNCHANGED <<file_content, loaded, disk0, runs, shadowrocketVars, policyVars, zipVars, fixVars>>

\* bounds of the smart_cleanup runs
MaxFiles == 3

RuleA == <<"DOMAIN-SUFFIX", ",", "a.com">>
RuleB == <<"IP-CIDR", ",", "b.com", ",", "no-resolve">>
CommentLine == <<"#", " ", "note">>

\* the file bodies RULESET_DIR starts with
CleanupBodies ==
    { <<CommentLine>>,
      << <<" ">> \o RuleA \o <<" ", "#", " ", "note">>, RuleA \o <<",", "no-resolve">>,
         RuleB >> }

RECURSIVE SubsetsUpTo(_, _)
SubsetsUpTo(S, k) ==
    IF k = 0 THEN {{}}
    ELSE LET P == SubsetsUpTo(S, k - 1) IN P \cup {T \cup {x} : T \in P, x \in S}

InitCleanup ==
    /\ pc = "main"
    /\ \E ex \in SubsetsUpTo(FileNames, MaxFiles) :
         \E body \in [ex -> CleanupBodies] :
            disk = [n \in FileNames |-> IF n \in ex THEN body[n] ELSE NoFile]
    /\ disk0 = disk
    /\ file_content = <<>>
    /\ loaded = <<>>
    /\ runs = 0
    /\ IdleShadowrocket
    /\ IdlePolicy
    /\ IdleZip
    /\ IdleFix

NextCleanup == MainLoad \/ MainSubtract \/ MainSave

SpecCleanup == InitCleanup /\ [][NextCleanup]_vars

\* C1: once main has saved, for every entry Specific -> Generic of CONFLICT_MAP
\* whose two files exist, no rule load_list read from Specific is among the
\* rules of the file written for Generic.
C1_SpecificAbsentFromGeneric ==
    pc = "done" =>
        \A i \in 1..Len(CONFLICT_MAP) :
            \A g \in Range(CONFLICT_MAP[i][2]) :
                LET s == CONFLICT_MAP[i][1] IN
                (s \in DOMAIN loaded /\ g \in DOMAIN loaded) =>
                    /\ loaded[s] \cap load_list(disk[g]) = {}
                    /\ loaded[s] \cap file_content[g] = {}

\* a Specific list that lost a rule to a higher-priority list before it was
\* applied to a Generic list that held the rule
C1_Witness ==
    /\ pc = "done"
    /\ \E i \in 1..Len(CONFLICT_MAP) :
         \E g \in Range(CONFLICT_MAP[i][2]) :
            LET s == CONFLICT_MAP[i][1] IN
            /\ s \in DOMAIN loaded /\ g \in DOMAIN loaded
            /\ \E r \in loaded[s] : r \in loaded[g] /\ r \notin file_content[s]

----------------------------------------------------------------------------
(* smart_cleanup.write_list on one file, called with any rule set *)

MaxHeader == 7
MaxCalls == 2

ListFile == "Manual.list"

HeaderLines == {CommentLine, <<>>}

\* what follows the header: nothing, or a first rule and more
BodyTails == { <<>>, <<RuleA>>, <<RuleB, CommentLine, RuleA>>, << <<" ">> \o CommentLine >> }

WriteListBodies ==
    UNION {{h \o t : h \in [1..n -> HeaderLines], t \in BodyTails} : n \in 0..MaxHeader}

WriteListCall ==
    /\ pc = "write_list"
    /\ runs < MaxCalls
    /\ \E rules \in SUBSET {RuleA, RuleB} :
         /\ disk' = [disk EXCEPT ![ListFile] = write_list(ListFile, disk[ListFile], rules)]
         /\ file_content' = (ListFile :> rules)
    /\ disk0' = disk
    /\ runs' = runs + 1
    /\ pc' = "written"
    /\ UNCHANGED <<loaded, shadowrocketVars, policyVars, zipVars, fixVars>>

\* the script is run again on the file it wrote
WriteListAgain ==
    /\ pc = "written"
    /\ pc' = "write_list"
    /\ UNCHANGED <<disk, file_content, loaded, disk0, runs, shadowrocketVars, policyVars, zipVars, fixVars>>

InitWriteList ==
    /\ pc = "write_list"
    /\ \E body \in WriteListBodies \cup {NoFile} :
         disk = (ListFile :> body)
    /\ disk0 = disk
    /\ file_content = <<>>
    /\ loaded = <<>>
    /\ runs = 0
    /\ IdleShadowrocket
    /\ IdlePolicy
    /\ IdleZip
    /\ IdleFix

NextWriteList == WriteListCall \/ WriteListAgain

SpecWriteList == InitWriteList /\ [][NextWriteList]_vars

\* the file began with a header block that a first rule ends
HasHeaderBeforeRule(content) ==
    /\ content # NoFile
    /\ existing_header(content) # <<>>
    /\ Len(content) > Len(existing_header(content))

HeaderStillFirst(before, after) ==
    LET header == existing_header(before) IN
    /\ Len(after) >= Len(header)
    /\ SubSeq(after, 1, Len(header)) = header

----------------------------------------------------------------------------
(* local/sync_shadowrocket_config.py *)

\* line.startswith('['): the atoms that begin with a bracket
StartsWithBracket(line) ==
    line # <<>> /\ Head(line) \in {"[Rule]", "[General]", "[Proxy Group]", "[Proxy]"}

\* [opt.strip() for opt in parts if opt.strip()]
RECURSIVE stripped_nonempty(_)
stripped_nonempty(parts) ==
    IF parts = <<>> THEN <<>>
    ELSE (IF Strip(Head(parts)) # <<>> THEN <<Strip(Head(parts))>> ELSE <<>>)
         \o stripped_nonempty(Tail(parts))

\* the rules one line of the [Rule] section appends (none or one)
rule_set_entry(line) ==
    IF ~StartsWith(line, <<"RULE-SET", ",">>) THEN <<>>
    ELSE LET parts == Split(line, ",") IN
         IF Len(parts) < 3 THEN <<>>
         ELSE LET url == Strip(parts[2])
                  policy == Strip(parts[3])
                  options == stripped_nonempty(SubSeq(parts, 4, Len(parts)))
                  option_str == IF options # <<>>
                                THEN policy \o <<",">> \o Join(options, ",")
                                ELSE policy
              IN  IF url \in {<<"SYSTEM">>, <<"LAN">>} THEN <<>>
                  ELSE << [url |-> url, policy |-> policy, options |-> option_str] >>

RECURSIVE parse_surge_rules_from(_, _)
parse_surge_rules_from(lines, in_rule_section) ==
    IF lines = <<>> THEN <<>>
    ELSE LET line == Strip(Head(lines)) IN
         IF line = <<"[Rule]">> THEN parse_surge_rules_from(Tail(lines), TRUE)
         ELSE IF StartsWithBracket(line) THEN parse_surge_rules_from(Tail(lines), FALSE)
         ELSE IF ~in_rule_section \/ line = <<>> \/ Head(line) = "#"
              THEN parse_surge_rules_from(Tail(lines), in_rule_section)
         ELSE rule_set_entry(line) \o parse_surge_rules_from(Tail(lines), in_rule_section)

parse_surge_rules(lines) == parse_surge_rules_from(lines, FALSE)

\* WHERE c0section = 'Rule' AND c1name = 'RULE-SET'
RuleSetRows(rows) == {r \in rows : r.c0section = "Rule" /\ r.c1name = "RULE-SET"}

\* get_shadowrocket_rules: url -> row. Of several rows with one url the last
\* fetched stays; the SELECT has no ORDER BY, so any of them may be the last.
get_shadowrocket_rules(rows) ==
    LET rs == RuleSetRows(rows)
        urls == {r.c2value : r \in rs}
    IN  {f \in [urls -> rs] : \A u \in urls : f[u].c2value = u}

Max(S) == CHOOSE x \in S : \A y \in S : y <= x

get_max_docid(rows) == IF rows = {} THEN 0 ELSE Max({r.docid : r \in rows})

to_add(s_rules, s_rows) == SelectSeq(s_rules, LAMBDA r : r.url \notin DOMAIN s_rows)

RECURSIVE to_update(_, _)
to_update(s_rules, s_rows) ==
    IF s_rules = <<>> THEN <<>>
    ELSE LET rule == Head(s_rules) IN
         (IF rule.url \in DOMAIN s_rows /\ s_rows[rule.url].c3option # rule.options
          THEN << [docid |-> s_rows[rule.url].docid, url |-> rule.url,
                   new_option |-> rule.options] >>
          ELSE <<>>)
         \o to_update(Tail(s_rules), s_rows)

to_delete(s_rules, s_rows) ==
    LET surge_urls == {s_rules[i].url : i \in 1..Len(s_rules)}
        skip_delete == {<<"SYSTEM">>, <<"LAN">>}
    IN  {s_rows[u] : u \in {v \in DOMAIN s_rows : v \notin surge_urls /\ v \notin skip_delete}}

\* INSERT INTO config_content, one row per rule of to_add, from next_docid on
inserted(adds, next_docid) ==
    {[docid |-> next_docid + i - 1, c0section |-> "Rule", c1name |-> "RULE-SET",
      c2value |-> adds[i].url, c3option |-> adds[i].options] : i \in 1..Len(adds)}

\* UPDATE config_content SET c3option = ? WHERE docid = ?, in the order of to_update
RECURSIVE updated(_, _)
updated(rows, updates) ==
    IF updates = <<>> THEN rows
    ELSE updated({IF r.docid = Head(updates).docid
                  THEN [r EXCEPT !.c3option = Head(updates).new_option]
                  ELSE r : r \in rows},
                 Tail(updates))

\* DELETE FROM config_content WHERE docid = ?
deleted(rows, deletes) == {r \in rows : r.docid \notin {x.docid : x \in deletes}}

\* the rows after the apply step has committed
applied(rows, s_rules, s_rows) ==
    LET next_docid == get_max_docid(rows) + 1 IN
    deleted(updated(rows \cup inserted(to_add(s_rules, s_rows), next_docid),
                    to_update(s_rules, s_rows)),
            to_delete(s_rules, s_rows))

NoChanges(s_rules, s_rows) ==
    /\ to_add(s_rules, s_rows) = <<>>
    /\ to_update(s_rules, s_rows) = <<>>
    /\ to_delete(s_rules, s_rows) = {}

WritesEvenIfDryRun(dry, s_rules, s_rows) == ~NoChanges(s_rules, s_rows)

\* the call reaches the apply step
Writes(dry, s_rules, s_rows) == ~NoChanges(s_rules, s_rows) /\ ~dry

\* steps 1 and 2 of sync_rules
SyncRead ==
    /\ pc = "sync_rules"
    /\ surge_rules' = parse_surge_rules(surge_config)
    /\ sr_rules' \in get_shadowrocket_rules(db)
    /\ pc' = "diff"
    /\ UNCHANGED <<surge_config, db, db0, dry_run, result, runs, cleanupVars, policyVars, zipVars, fixVars>>

\* steps 3 and 4 of sync_rules, the apply step committing
SyncApply ==
    /\ pc = "diff"
    /\ db' = IF Writes(dry_run, surge_rules, sr_rules)
             THEN applied(db, surge_rules, sr_rules)
             ELSE db
    /\ result' = "True"
    /\ pc' = "done"
    /\ UNCHANGED <<surge_config, db0, dry_run, surge_rules, sr_rules, runs, cleanupVars, policyVars, zipVars, fixVars>>

\* the rows the connection sees when a statement of the try block raises:
\* get_max_docid or some INSERT (a prefix of to_add done), some UPDATE (every
\* INSERT and a prefix of to_update done), some DELETE (every INSERT and UPDATE
\* and some of to_delete done), or conn.commit() itself
in_transaction(rows, s_rules, s_rows) ==
    LET next_docid == get_max_docid(rows) + 1
        adds == to_add(s_rules, s_rows)
        updates == to_update(s_rules, s_rows)
        deletes == to_delete(s_rules, s_rows)
        all_inserted == rows \cup inserted(adds, next_docid)
        all_updated == updated(all_inserted, updates)
    IN  { rows \cup inserted(SubSeq(adds, 1, i), next_docid) : i \in 0..Len(adds) }
        \cup { updated(all_inserted, SubSeq(updates, 1, j)) : j \in 0..Len(updates) }
        \cup { deleted(all_updated, D) : D \in SUBSET deletes }

\* the uncommitted rows stay
rollback_Skipped(committed, uncommitted) == uncommitted

\* conn.rollback(): the database is what was last committed
rollback(committed, uncommitted) == committed

\* steps 3 and 4 of sync_rules, a statement of the apply step raising:
\* conn.rollback() and return False
SyncApplyRaises ==
    /\ pc = "diff"
    /\ Writes(dry_run, surge_rules, sr_rules)
    /\ \E uncommitted \in in_transaction(db, surge_rules, sr_rules) :
          db' = rollback(db, uncommitted)
    /\ result' = "False"
    /\ pc' = "done"
    /\ UNCHANGED <<surge_config, db0, dry_run, surge_rules, sr_rules, runs, cleanupVars, policyVars, zipVars, fixVars>>

\* bounds of the sync_rules runs
MaxConfigLines == 3
MaxRows == 2

RuleSetLine(url, rest) == <<"RULE-SET", ",", url, ",">> \o rest

SyncConfigLines ==
    { <<"[Rule]">>, <<"[General]">>,
      RuleSetLine("u1", <<"P1">>),
      RuleSetLine("u1", <<" ", "P2", ",", "no-resolve", ",", " ">>),
      RuleSetLine("u2", <<"P1">>),
      RuleSetLine("SYSTEM", <<"P1">>) }

SyncConfigs == UNION {[1..n -> SyncConfigLines] : n \in 0..MaxConfigLines}

RuleSetRow(url, option) ==
    [c0section |-> "Rule", c1name |-> "RULE-SET", c2value |-> <<url>>, c3option |-> option]

RowContents ==
    { RuleSetRow("u1", <<"P1">>), RuleSetRow("u1", <<"P2", ",", "no-resolve">>),
      RuleSetRow("u2", <<"P1">>), RuleSetRow("u3", <<"P1">>), RuleSetRow("SYSTEM", <<"P1">>),
      [c0section |-> "General", c1name |-> "loglevel", c2value |-> <<"notify">>,
       c3option |-> <<>>] }

WithDocid(d, c) ==
    [docid |-> d, c0section |-> c.c0section, c1name |-> c.c1name,
     c2value |-> c.c2value, c3option |-> c.c3option]

\* the docid is the rowid: no two rows share it
Databases ==
    UNION {{{WithDocid(d, c[d]) : d \in D} : c \in [D -> RowContents]} :
           D \in SUBSET (1..MaxRows)}

InitSync ==
    /\ pc = "sync_rules"
    /\ runs = 0
    /\ IdleCleanup
    /\ IdlePolicy
    /\ IdleZip
    /\ IdleFix
    /\ surge_config \in SyncConfigs
    /\ db \in Databases
    /\ db0 = db
    /\ dry_run \in BOOLEAN
    /\ surge_rules = <<>>
    /\ sr_rules = <<>>
    /\ result = "none"

NextSync == SyncRead \/ SyncApply \/ SyncApplyRaises

SpecSync == InitSync /\ [][NextSync]_vars

\* every RULE-SET entry of the config has a row with its URL and option string,
\* and every RULE-SET row (SYSTEM and LAN aside) has a URL of the config
InAgreement(s_rules, rows) ==
    /\ \A i \in 1..Len(s_rules) :
          \E r \in RuleSetRows(rows) :
              r.c2value = s_rules[i].url /\ r.c3option = s_rules[i].options
    /\ \A r \in RuleSetRows(rows) :
          r.c2value \notin {<<"SYSTEM">>, <<"LAN">>} =>
              \E i \in 1..Len(s_rules) : s_rules[i].url = r.c2value

\* C2: a sync_rules call without dry_run that returned True leaves the
\* database in agreement with the RULE-SET entries of the Surge config.
C2_SyncedAfterTrue ==
    (pc = "done" /\ ~dry_run /\ result = "True")
        => InAgreement(parse_surge_rules(surge_config), db)

\* C3: a sync_rules call with dry_run returns True and leaves the rows of
\* config_content as they were.
C3_DryRunWritesNothing ==
    (pc = "done" /\ dry_run) => (db = db0 /\ result = "True")

\* a dry run that found a rule to add, a row to update and a row to delete
C3_Witness ==
    /\ pc = "done" /\ dry_run
    /\ to_add(surge_rules, sr_rules) # <<>>
    /\ to_update(surge_rules, sr_rules) # <<>>
    /\ to_delete(surge_rules, sr_rules) # {}
    /\ db = db0

\* C14: when a statement of the apply step raises, sync_rules returns False
\* and the database is what it was before the call: no addition, update or
\* deletion of this run is kept.
C14_FailureRollsBack ==
    (pc = "done" /\ result = "False") =>
        /\ db = db0
        /\ \A r \in db0 : r \in db
        /\ get_max_docid(db) = get_max_docid(db0)

\* a failed run that had rules to add, to update and to delete
C14_Witness ==
    /\ pc = "done" /\ result = "False"
    /\ to_add(surge_rules, sr_rules) # <<>>
    /\ to_update(surge_rules, sr_rules) # <<>>
    /\ to_delete(surge_rules, sr_rules) # {}
    /\ \E uncommitted \in in_transaction(db0, surge_rules, sr_rules) :
          Cardinality(uncommitted) > Cardinality(db0)

----------------------------------------------------------------------------
(* local/sync_singbox_policy_groups.py (merge_sync/sync_singbox_policy_groups.py *)
(* is the same function without the dry_run parameter)                          *)

\* s.split(sep, 1)
SplitOnce(s, sep) ==
    IF \A i \in 1..Len(s) : s[i] # sep THEN <<s>>
    ELSE LET k == CHOOSE i \in 1..Len(s) : s[i] = sep /\ \A j \in 1..(i - 1) : s[j] # sep
         IN  <<SubSeq(s, 1, k - 1), SubSeq(s, k + 1, Len(s))>>

GroupTypes == <<"select", "url-test", "fallback", "load-balance", "smart">>

\* <<atom, t>>: the text of the atom starts with t
AtomPrefixes ==
    {<<GroupTypes[i], GroupTypes[i]>> : i \in 1..Len(GroupTypes)}
    \cup {<<"selector", "select">>, <<"smart-group", "smart">>}

\* config.startswith(group_type)
ConfigStartsWith(config, group_type) ==
    config # <<>> /\ <<Head(config), group_type>> \in AtomPrefixes

\* the first group_type of the list the config starts with, "" if none
group_type_of(config) ==
    IF \E i \in 1..Len(GroupTypes) : ConfigStartsWith(config, GroupTypes[i])
    THEN GroupTypes[CHOOSE i \in 1..Len(GroupTypes) :
                        /\ ConfigStartsWith(config, GroupTypes[i])
                        /\ \A j \in 1..(i - 1) : ~ConfigStartsWith(config, GroupTypes[j])]
    ELSE ""

\* policy_groups[group_name] = group_type on a dict kept in insertion order
dict_set(groups, group_name, group_type) ==
    IF \E i \in 1..Len(groups) : groups[i].name = group_name
    THEN [i \in 1..Len(groups) |->
             IF groups[i].name = group_name
             THEN [name |-> group_name, type |-> group_type] ELSE groups[i]]
    ELSE Append(groups, [name |-> group_name, type |-> group_type])

RECURSIVE parse_policy_groups_from(_, _, _)
parse_policy_groups_from(lines, in_proxy_group, policy_groups) ==
    IF lines = <<>> THEN policy_groups
    ELSE LET line == Strip(Head(lines)) IN
         IF line = <<"[Proxy Group]">>
         THEN parse_policy_groups_from(Tail(lines), TRUE, policy_groups)
         ELSE IF StartsWithBracket(line)
         THEN parse_policy_groups_from(Tail(lines), FALSE, policy_groups)
         ELSE IF ~in_proxy_group \/ line = <<>> \/ Head(line) = "#"
         THEN parse_policy_groups_from(Tail(lines), in_proxy_group, policy_groups)
         ELSE IF ~Contains(line, <<"=">>)
         THEN parse_policy_groups_from(Tail(lines), in_proxy_group, policy_groups)
         ELSE LET parts == SplitOnce(line, "=")
                  group_name == Strip(parts[1])
                  config == Strip(parts[2])
                  group_type == group_type_of(config)
              IN  parse_policy_groups_from(Tail(lines), in_proxy_group,
                      IF group_type # ""
                      THEN dict_set(policy_groups, group_name, group_type)
                      ELSE policy_groups)

parse_surge_policy_groups(lines) == parse_policy_groups_from(lines, FALSE, <<>>)

Absent == "<absent>"

singbox_type_AllSelector(group_type) == "selector"

\* type_mapping.get(group_type, 'selector')
singbox_type(group_type) ==
    CASE group_type = "select" -> "selector"
      [] group_type = "url-test" -> "urltest"
      [] group_type = "fallback" -> "urltest"
      [] group_type = "load-balance" -> "urltest"
      [] group_type = "smart" -> "urltest"
      [] OTHER -> "selector"

default_outbound == "direct-global"

create_singbox_outbound(name, group_type) ==
    IF singbox_type(group_type) = "urltest"
    THEN [type |-> "urltest", tag |-> name, outbounds |-> <<default_outbound>>,
          url |-> "http://www.cloudflare.com/generate_204", interval |-> "3m",
          tolerance |-> "30", default |-> Absent]
    ELSE [type |-> singbox_type(group_type), tag |-> name,
          outbounds |-> <<default_outbound>>,
          url |-> Absent, interval |-> Absent, tolerance |-> Absent,
          default |-> default_outbound]

\* singbox_config.get('outbounds', [])
outbounds_of(config) == IF config.has_outbounds THEN config.outbounds ELSE <<>>

\* the tags of the selector and urltest outbounds of the config
existing_groups(config) ==
    {outbounds_of(config)[i].tag :
        i \in {j \in 1..Len(outbounds_of(config)) :
                  outbounds_of(config)[j].type \in {"selector", "urltest"}}}

missing(groups, config) ==
    SelectSeq(groups, LAMBDA g : g.name \notin existing_groups(config))

append_Front(outbounds, new_outbound) == <<new_outbound>> \o outbounds

\* singbox_config['outbounds'].append(new_outbound)
append(outbounds, new_outbound) == Append(outbounds, new_outbound)

RECURSIVE add_missing(_, _)
add_missing(outbounds, groups) ==
    IF groups = <<>> THEN outbounds
    ELSE add_missing(append(outbounds,
                            create_singbox_outbound(Head(groups).name, Head(groups).type)),
                     Tail(groups))

policyFrame == <<runs, cleanupVars, shadowrocketVars, zipVars, fixVars>>

\* reading the two configs and finding the missing groups
PolicyRead ==
    /\ pc = "sync_policy_groups"
    /\ surge_groups' = parse_surge_policy_groups(surge_config)
    /\ missing_groups' = missing(surge_groups', singbox_config)
    /\ pc' = "compared"
    /\ UNCHANGED <<singbox_config, written, policyFrame>>

\* if not missing_groups: return
PolicyAllSynced ==
    /\ pc = "compared"
    /\ missing_groups = <<>>
    /\ pc' = "done"
    /\ UNCHANGED <<policyVars, policyFrame>>

\* if dry_run: return
PolicyDryRun ==
    /\ pc = "compared"
    /\ missing_groups # <<>>
    /\ dry_run
    /\ pc' = "done"
    /\ UNCHANGED <<policyVars, policyFrame>>

\* the missing groups are appended and the config is dumped to output_file
PolicyWrite ==
    /\ pc = "compared"
    /\ missing_groups # <<>>
    /\ ~dry_run
    /\ singbox_config.has_outbounds
    /\ written' = Append(written,
                         [singbox_config EXCEPT
                             !.outbounds = add_missing(singbox_config.outbounds,
                                                       missing_groups)])
    /\ pc' = "done"
    /\ UNCHANGED <<singbox_config, surge_groups, missing_groups, policyFrame>>

\* singbox_config['outbounds'] of a config without the key: KeyError
PolicyKeyError ==
    /\ pc = "compared"
    /\ missing_groups # <<>>
    /\ ~dry_run
    /\ ~singbox_config.has_outbounds
    /\ pc' = "raised"
    /\ UNCHANGED <<policyVars, policyFrame>>

\* bounds of the sync_policy_groups runs
MaxGroupLines == 3
MaxOutbounds == 2

GroupLine(name, rest) == <<name, " ", "=", " ">> \o rest

PolicyConfigLines ==
    { <<"[Proxy Group]">>, <<"[Rule]">>,
      GroupLine("A", <<"select", ",", "DIRECT">>),
      <<"A", "=", "smart">>,
      GroupLine("B", <<"url-test", ",", "url", "=", "x">>),
      GroupLine("B", <<"fallback">>),
      <<" ", "C", "=", "load-balance", " ">>,
      GroupLine("D", <<"ssh", ",", "host">>) }

PolicyConfigs == UNION {[1..n -> PolicyConfigLines] : n \in 0..MaxGroupLines}

ExistingOutbound(type, tag) ==
    [type |-> type, tag |-> tag, outbounds |-> <<"node-1">>,
     url |-> Absent, interval |-> Absent, tolerance |-> Absent, default |-> Absent]

ExistingOutbounds ==
    { ExistingOutbound("selector", <<"A">>), ExistingOutbound("urltest", <<"B">>),
      ExistingOutbound("direct", <<"A">>) }

SingboxConfigs ==
    {[has_outbounds |-> TRUE, outbounds |-> o, route |-> "route-1"] :
        o \in UNION {[1..n -> ExistingOutbounds] : n \in 0..MaxOutbounds}}
    \cup {[has_outbounds |-> FALSE, outbounds |-> <<>>, route |-> "route-1"]}

InitPolicy ==
    /\ pc = "sync_policy_groups"
    /\ runs = 0
    /\ IdleCleanup
    /\ IdleDatabase
    /\ surge_config \in PolicyConfigs
    /\ dry_run \in BOOLEAN
    /\ singbox_config \in SingboxConfigs
    /\ surge_groups = <<>>
    /\ missing_groups = <<>>
    /\ written = <<>>
    /\ IdleZip
    /\ IdleFix

NextPolicy ==
    PolicyRead \/ PolicyAllSynced \/ PolicyDryRun \/ PolicyWrite \/ PolicyKeyError

SpecPolicy == InitPolicy /\ [][NextPolicy]_vars

\* line i of the Surge config is in the [Proxy Group] section
InProxyGroup(lines, i) ==
    \E j \in 1..(i - 1) :
        /\ Strip(lines[j]) = <<"[Proxy Group]">>
        /\ \A k \in (j + 1)..(i - 1) : ~StartsWithBracket(Strip(lines[k]))

\* line i is a 'name = type...' line of the section with one of the five types
IsGroupLine(lines, i) ==
    LET line == Strip(lines[i]) IN
    /\ InProxyGroup(lines, i)
    /\ line # <<>> /\ ~StartsWithBracket(line) /\ Head(line) # "#"
    /\ Contains(line, <<"=">>)
    /\ group_type_of(Strip(SplitOnce(line, "=")[2])) # ""

GroupNameAt(lines, i) == Strip(SplitOnce(Strip(lines[i]), "=")[1])
GroupTypeAt(lines, i) == group_type_of(Strip(SplitOnce(Strip(lines[i]), "=")[2]))

\* the type the Surge config gives the group: that of its last definition
SurgeTypeOf(lines, name) ==
    GroupTypeAt(lines, CHOOSE i \in 1..Len(lines) :
                           /\ IsGroupLine(lines, i) /\ GroupNameAt(lines, i) = name
                           /\ \A j \in (i + 1)..Len(lines) :
                                 ~(IsGroupLine(lines, j) /\ GroupNameAt(lines, j) = name))

\* the Sing-box config the run leaves behind
FinalConfig == IF written # <<>> THEN written[Len(written)] ELSE singbox_config

\* C4: after a run without dry_run has completed, every policy group of the
\* Surge [Proxy Group] section is the tag of a selector or urltest outbound of
\* the Sing-box config, and every outbound the run created has type selector
\* if the group's Surge type is select and urltest for the four other types.
C4_GroupsPresentWithMappedType ==
    (pc = "done" /\ ~dry_run) =>
        /\ \A i \in 1..Len(surge_config) :
              IsGroupLine(surge_config, i) =>
                  \E k \in 1..Len(outbounds_of(FinalConfig)) :
                      /\ outbounds_of(FinalConfig)[k].tag = GroupNameAt(surge_config, i)
                      /\ outbounds_of(FinalConfig)[k].type \in {"selector", "urltest"}
        /\ \A k \in (Len(outbounds_of(singbox_config)) + 1)..Len(outbounds_of(FinalConfig)) :
              LET o == outbounds_of(FinalConfig)[k] IN
              o.type = IF SurgeTypeOf(surge_config, o.tag) = "select"
                       THEN "selector" ELSE "urltest"

\* a run that created a selector and a urltest outbound
C4_Witness ==
    /\ pc = "done" /\ ~dry_run /\ written # <<>>
    /\ \E k1, k2 \in (Len(singbox_config.outbounds) + 1)..Len(FinalConfig.outbounds) :
          /\ FinalConfig.outbounds[k1].type = "selector"
          /\ FinalConfig.outbounds[k2].type = "urltest"

\* the names of the Surge groups no selector or urltest outbound is tagged with
MissingNames ==
    {GroupNameAt(surge_config, i) : i \in {j \in 1..Len(surge_config) :
                                              IsGroupLine(surge_config, j)}}
    \ existing_groups(singbox_config)

\* the line that first defines the group
FirstLineOf(name) ==
    CHOOSE i \in 1..Len(surge_config) :
        /\ IsGroupLine(surge_config, i) /\ GroupNameAt(surge_config, i) = name
        /\ \A j \in 1..(i - 1) :
              ~(IsGroupLine(surge_config, j) /\ GroupNameAt(surge_config, j) = name)

\* C5: the written outbounds list is the input list followed by exactly one
\* new outbound per missing Surge group, in Surge config order; every other
\* key is written back unchanged; with no group missing, or with dry_run set,
\* no file is written.
C5_PurelyAdditive ==
    /\ Len(written) <= 1
    /\ written # <<>> =>
          LET w == written[1]
              n0 == Len(singbox_config.outbounds)
              added == (n0 + 1)..Len(w.outbounds)
          IN  /\ w.route = singbox_config.route
              /\ w.has_outbounds = singbox_config.has_outbounds
              /\ Len(w.outbounds) >= n0
              /\ SubSeq(w.outbounds, 1, n0) = singbox_config.outbounds
              /\ {w.outbounds[k].tag : k \in added} = MissingNames
              /\ \A k1, k2 \in added :
                    k1 < k2 => FirstLineOf(w.outbounds[k1].tag) < FirstLineOf(w.outbounds[k2].tag)
    /\ (pc = "done" /\ (dry_run \/ MissingNames = {})) => written = <<>>
    /\ (pc = "done" /\ ~dry_run /\ MissingNames # {}) => written # <<>>

\* a run that appended two outbounds to a config that already had some
C5_Witness ==
    /\ pc = "done" /\ written # <<>>
    /\ singbox_config.outbounds # <<>>
    /\ Len(written[1].outbounds) = Len(singbox_config.outbounds) + 2

----------------------------------------------------------------------------
(* scripts/zip_files.py *)
(* Entry names are numbers standing for the names in sorted order. An entry's *)
(* grow is the number of bytes the open archive file grows by when the entry  *)
(* is written (local header and deflated data); closing the archive appends   *)
(* the central directory, so a closed archive is larger than the size the     *)
(* loop last measured.                                                        *)

\* max_size_mb of the runs
MaxSizeMb == 1

max_size_bytes == MaxSizeMb * 1024 * 1024

\* [f for f in os.listdir(source_dir) if os.path.isfile(...)]
regular_files(dir, names) == SelectSeq(names, LAMBDA f : dir[f].is_file)

RECURSIVE insert_sorted(_, _)
insert_sorted(sorted_list, f) ==
    IF sorted_list = <<>> THEN <<f>>
    ELSE IF f < Head(sorted_list) THEN <<f>> \o sorted_list
    ELSE <<Head(sorted_list)>> \o insert_sorted(Tail(sorted_list), f)

sort_Skipped(names) == names

\* files_to_zip.sort()
RECURSIVE sort(_)
sort(names) ==
    IF names = <<>> THEN <<>>
    ELSE insert_sorted(sort(Tail(names)), Head(names))

starts_new_archive_SizeOnly(zip_size, file_size) == zip_size > max_size_bytes

\* if current_zip_size > 0 and current_zip_size + file_size > max_size_bytes
starts_new_archive(zip_size, file_size) ==
    zip_size > 0 /\ zip_size + file_size > max_size_bytes

zipFrame == <<runs, cleanupVars, shadowrocketVars, policyVars, fixVars>>

\* the listing, the sort and the opening of archive_1.zip
ZipOpenFirst ==
    /\ pc = "zip_large_directory"
    /\ files_to_zip' = sort(regular_files(source_dir, listing))
    /\ next_file' = 1
    /\ zip_file_count' = 1
    /\ archives' = << [number |-> 1, entries |-> <<>>] >>
    /\ current_zip_size' = 0
    /\ pc' = "loop"
    /\ UNCHANGED <<source_dir, listing, zipFrame>>

\* one iteration of the for loop
ZipWriteFile ==
    /\ pc = "loop"
    /\ next_file <= Len(files_to_zip)
    /\ LET filename == files_to_zip[next_file]
           file_size == source_dir[filename].size
           rolls == starts_new_archive(current_zip_size, file_size)
           count == IF rolls THEN zip_file_count + 1 ELSE zip_file_count
           opened == IF rolls
                     THEN Append(archives, [number |-> count, entries |-> <<>>])
                     ELSE archives
           size_before == IF rolls THEN 0 ELSE current_zip_size
           size_after == size_before + source_dir[filename].grow
           entry == [name |-> filename, file_size |-> file_size,
                     size_before |-> size_before, size_after |-> size_after]
       IN  /\ zip_file_count' = count
           /\ archives' = [opened EXCEPT ![Len(opened)].entries = Append(@, entry)]
           /\ current_zip_size' = size_after
    /\ next_file' = next_file + 1
    /\ UNCHANGED <<pc, source_dir, listing, files_to_zip, zipFrame>>

\* zip_file.close() after the loop
ZipClose ==
    /\ pc = "loop"
    /\ next_file > Len(files_to_zip)
    /\ pc' = "done"
    /\ UNCHANGED <<zipVars, zipFrame>>

\* bound of the zip_large_directory runs
MaxEntries == 3

\* entries of source_dir: two files that fit the limit together by their
\* sizes, one larger than the limit, and a subdirectory
EntryKinds ==
    { [is_file |-> TRUE, size |-> (max_size_bytes * 6) \div 10,
       grow |-> max_size_bytes \div 2],
      [is_file |-> TRUE, size |-> max_size_bytes \div 2,
       grow |-> max_size_bytes \div 2 + 64],
      [is_file |-> TRUE, size |-> max_size_bytes + 1000,
       grow |-> max_size_bytes + 1064],
      [is_file |-> FALSE, size |-> 4096, grow |-> 0] }

Listings(n) == {p \in [1..n -> 1..n] : \A i, j \in 1..n : p[i] = p[j] => i = j}

InitZip ==
    /\ pc = "zip_large_directory"
    /\ runs = 0
    /\ IdleCleanup
    /\ IdleShadowrocket
    /\ IdlePolicy
    /\ \E n \in 0..MaxEntries :
         /\ source_dir \in [1..n -> EntryKinds]
         /\ listing \in Listings(n)
    /\ files_to_zip = <<>>
    /\ next_file = 0
    /\ archives = <<>>
    /\ zip_file_count = 0
    /\ current_zip_size = 0
    /\ IdleFix

NextZip == ZipOpenFirst \/ ZipWriteFile \/ ZipClose

SpecZip == InitZip /\ [][NextZip]_vars

\* the size the loop last measured for the archive (0 for an empty one)
MeasuredSize(archive) ==
    IF archive.entries = <<>> THEN 0
    ELSE archive.entries[Len(archive.entries)].size_after

ArchivedNames(k) == {archives[k].entries[i].name : i \in 1..Len(archives[k].entries)}

RegularFiles == {f \in DOMAIN source_dir : source_dir[f].is_file}

\* C7: every regular file of source_dir is in exactly one archive, once; the
\* archives are numbered 1, 2, ... without gaps; every file of archive k
\* sorts before every file of archive k+1; and only archive_1 of a directory
\* without files is empty.
C7_EveryFileOnceInOrder ==
    pc = "done" =>
        /\ \A f \in RegularFiles :
              \E k \in 1..Len(archives) :
                  /\ Cardinality({i \in 1..Len(archives[k].entries) :
                                     archives[k].entries[i].name = f}) = 1
                  /\ \A k2 \in 1..Len(archives) : k2 # k => f \notin ArchivedNames(k2)
        /\ \A k \in 1..Len(archives) : ArchivedNames(k) \subseteq RegularFiles
        /\ Len(archives) = zip_file_count
        /\ \A k \in 1..Len(archives) : archives[k].number = k
        /\ \A k1, k2 \in 1..Len(archives) :
              k1 < k2 => \A f1 \in ArchivedNames(k1), f2 \in ArchivedNames(k2) : f1 < f2
        /\ \A k \in 1..Len(archives) :
              archives[k].entries = <<>> => (k = 1 /\ RegularFiles = {})

\* three files listed out of order went to more than one archive
C7_Witness ==
    /\ pc = "done"
    /\ Len(archives) >= 2
    /\ Cardinality(RegularFiles) = 3
    /\ listing # sort(listing)

----------------------------------------------------------------------------
(* merge_sync/fix_ruleset_policies.py *)

\* str.lower() and str.upper() of an atom
Lower(a) ==
    CASE a = "NO-RESOLVE" -> "no-resolve"
      [] a = "REJECT" -> "reject"
      [] a = "Reject" -> "reject"
      [] a = "DIRECT" -> "direct"
      [] a = "Pre-Matching" -> "pre-matching"
      [] a = "Reddit" -> "reddit"
      [] a = "REDDIT" -> "reddit"
      [] a = "DOMAIN" -> "domain"
      [] a = "DOMAIN-KEYWORD" -> "domain-keyword"
      [] a = "DOMAIN-SUFFIX" -> "domain-suffix"
      [] a = "PROXY" -> "proxy"
      [] OTHER -> a

Upper(a) ==
    CASE a = "no-resolve" -> "NO-RESOLVE"
      [] a = "reject" -> "REJECT"
      [] a = "Reject" -> "REJECT"
      [] a = "direct" -> "DIRECT"
      [] a = "pre-matching" -> "PRE-MATCHING"
      [] a = "Pre-Matching" -> "PRE-MATCHING"
      [] a = "extended-matching" -> "EXTENDED-MATCHING"
      [] a = "x.com" -> "X.COM"
      [] a = "note" -> "NOTE"
      [] OTHER -> a

LowerStr(s) == [i \in 1..Len(s) |-> Lower(s[i])]
UpperStr(s) == [i \in 1..Len(s) |-> Upper(s[i])]

policies == { <<"REJECT">>, <<"DIRECT">>, <<"PROXY">>, <<"REJECT-DROP">>,
              <<"REJECT-TINYGIF">>, <<"REJECT-NO-DROP">>, <<"REJECT-IMG">> }

options == { <<"extended-matching">>, <<"pre-matching">> }

kept_part_Unknown(raw_part) ==
    LET part == Strip(raw_part) IN
    IF LowerStr(part) = <<"no-resolve">> THEN << <<"no-resolve">> >>
    ELSE IF UpperStr(part) \notin policies /\ LowerStr(part) \notin options
         THEN << raw_part >>
         ELSE <<>>

\* what parts[i], i >= 2, appends to new_parts
kept_part(raw_part) ==
    LET part == Strip(raw_part) IN
    IF LowerStr(part) = <<"no-resolve">> THEN << <<"no-resolve">> >>
    ELSE IF UpperStr(part) \notin policies /\ LowerStr(part) \notin options
         THEN <<>>  \* unknown part: pass
         ELSE <<>>

RECURSIVE kept_parts(_)
kept_parts(parts) ==
    IF parts = <<>> THEN <<>>
    ELSE kept_part(Head(parts)) \o kept_parts(Tail(parts))

\* the line appended to cleaned_lines for one line of the file
fix_line(original_line) ==
    LET line == Strip(original_line) IN
    IF line = <<>> \/ Head(line) = "#" THEN RStrip(original_line)
    ELSE LET parts == Split(line, ",") IN
         IF Len(parts) < 2 THEN line
         ELSE Join(<<parts[1], parts[2]>> \o kept_parts(SubSeq(parts, 3, Len(parts))), ",")

\* the line counts for fixed_count
counts_as_fixed(original_line) ==
    LET line == Strip(original_line) IN
    /\ ~(line = <<>> \/ Head(line) = "#")
    /\ Len(Split(line, ",")) >= 2
    /\ fix_line(original_line) # line

\* f.write('\n'.join(cleaned_lines) + '\n'): the lines of the file written
written_lines(cleaned_lines) == IF cleaned_lines = <<>> THEN << <<>> >> ELSE cleaned_lines

fixFrame == <<runs, file_content, loaded, shadowrocketVars, policyVars, zipVars, backup>>

FixRuleset ==
    /\ pc = "fix_ruleset"
    /\ LET lines == disk[ListFile] IN
       /\ disk' = (ListFile :> written_lines([i \in 1..Len(lines) |-> fix_line(lines[i])]))
       /\ fixed_count' = Cardinality({i \in 1..Len(lines) : counts_as_fixed(lines[i])})
    /\ disk0' = disk
    /\ pc' = "done"
    /\ UNCHANGED fixFrame

\* bounds of the fix_ruleset runs
MaxListLines == 2
MaxExtraFields == 2

ExtraFields ==
    { <<" ", "Reject">>, <<"NO-RESOLVE", " ">>, <<"x.com">> }

\* rules TYPE,VALUE with extra fields; a rule whose value is a policy name; a
\* rule with a policy and the two options (the docstring's example); a
\* one-field line; an empty and a blank line; an indented comment
ListLines ==
    { Join(<<<<"DOMAIN">>, <<"x.com">>>> \o e, ",") :
        e \in UNION {[1..n -> ExtraFields] : n \in 0..MaxExtraFields} }
    \cup { <<"DOMAIN", ",", "REJECT", ",", "REJECT">>,
           <<"DOMAIN", ",", "x.com", ",", "REJECT", ",", "extended-matching", ",",
             "Pre-Matching">>,
           <<"REJECT">>, <<>>, <<" ">>,
           <<" ">> \o CommentLine \o <<",", "REJECT", " ">> }

InitFix ==
    /\ pc = "fix_ruleset"
    /\ runs = 0
    /\ \E n \in 0..MaxListLines : \E lines \in [1..n -> ListLines] :
          disk = (ListFile :> lines)
    /\ disk0 = disk
    /\ file_content = <<>>
    /\ loaded = <<>>
    /\ IdleShadowrocket
    /\ IdlePolicy
    /\ IdleZip
    /\ IdleFix

NextFix == FixRuleset

SpecFix == InitFix /\ [][NextFix]_vars

IsCommentOrEmpty(raw) == Strip(raw) = <<>> \/ Head(Strip(raw)) = "#"

\* C8: after fix_ruleset every line that was a rule with at least two fields
\* is its first two fields followed by 'no-resolve' fields only (so no policy
\* and no option field follows the value), and comment and empty lines are
\* kept (up to trailing blanks).
C8_RulesOnly ==
    pc = "done" =>
        /\ Len(disk0[ListFile]) > 0 => Len(disk[ListFile]) = Len(disk0[ListFile])
        /\ \A i \in 1..Len(disk0[ListFile]) :
              LET before == disk0[ListFile][i]
                  after == disk[ListFile][i]
                  fields0 == Split(Strip(before), ",")
                  fields == Split(after, ",")
              IN  IF IsCommentOrEmpty(before)
                  THEN /\ IsCommentOrEmpty(after)
                       /\ StartsWith(before, after)
                       /\ Strip(after) = Strip(before)
                  ELSE Len(fields0) >= 2 =>
                       /\ Len(fields) >= 2
                       /\ fields[1] = fields0[1] /\ fields[2] = fields0[2]
                       /\ \A k \in 3..Len(fields) :
                             /\ fields[k] = <<"no-resolve">>
                             /\ UpperStr(Strip(fields[k])) \notin policies
                             /\ LowerStr(Strip(fields[k])) \notin options

\* a rule of four fields that was cut to three, next to a comment line
C8_Witness ==
    /\ pc = "done"
    /\ fixed_count > 0
    /\ \E i \in 1..Len(disk0[ListFile]) :
          /\ Len(Split(disk0[ListFile][i], ",")) = 4
          /\ Len(Split(disk[ListFile][i], ",")) = 3
    /\ \E i \in 1..Len(disk0[ListFile]) :
          /\ IsCommentOrEmpty(disk0[ListFile][i]) /\ disk0[ListFile][i] # <<>>

-----------------------------------------------------------------------------
(* merge_sync/check_surge_config.py *)

\* ',Reddit'
RedditPolicy == <<",", "Reddit">>

\* the replacement text: a comma, then the code points U+1F310, space,
\* U+793E U+4EA4 U+5A92 U+4F53, space, U+1F4F1 (written in ASCII here)
SocialMediaPolicy == <<",", "U+1F310", " ", "U+793E U+4EA4 U+5A92 U+4F53", " ", "U+1F4F1">>

\* stripped.startswith('[') and stripped.endswith(']')
is_section_header(stripped) ==
    /\ stripped # <<>>
    /\ Head(stripped) \in {"[", "[Rule]", "[General]"}
    /\ stripped[Len(stripped)] \in {"]", "[Rule]", "[General]"}

\* in_rule_section once lines[1..i] have gone through the loop
RECURSIVE in_rule_section(_, _)
in_rule_section(lines, i) ==
    IF i = 0 THEN FALSE
    ELSE LET stripped == Strip(lines[i]) IN
         IF stripped = <<"[Rule]">> THEN TRUE
         ELSE IF is_section_header(stripped) THEN FALSE
         ELSE in_rule_section(lines, i - 1)

\* the loop reaches "if in_rule_section and stripped and not
\* stripped.startswith('#')" at line i and the test passes
is_examined(lines, i) ==
    LET stripped == Strip(lines[i]) IN
    /\ stripped # <<"[Rule]">>
    /\ ~is_section_header(stripped)
    /\ in_rule_section(lines, i - 1)
    /\ stripped # <<>>
    /\ Head(stripped) # "#"

\* 'reddit' in stripped.lower() and 'DOMAIN-KEYWORD' in stripped
is_reddit_keyword_rule(stripped) ==
    /\ Contains(LowerStr(stripped), <<"reddit">>)
    /\ Contains(stripped, <<"DOMAIN-KEYWORD">>)

\* check_surge_config: the lines appended to issues
issues(lines) ==
    { i \in 1..Len(lines) :
        /\ is_examined(lines, i)
        /\ is_reddit_keyword_rule(Strip(lines[i]))
        /\ LET parts == Split(Strip(lines[i]), ",") IN
           Len(parts) >= 3 /\ parts[3] = <<"Reddit">> }

\* fix_surge_config: the lines it rewrites
lines_to_fix(lines) ==
    { i \in 1..Len(lines) :
        /\ is_examined(lines, i)
        /\ is_reddit_keyword_rule(Strip(lines[i]))
        /\ Contains(Strip(lines[i]), RedditPolicy) }

\* only the first ',Reddit' is replaced
replace_policy_FirstOnly(line) ==
    IF ~Contains(line, RedditPolicy) THEN line
    ELSE LET k == CHOOSE i \in 1..(Len(line) - 1) :
                     /\ SubSeq(line, i, i + 1) = RedditPolicy
                     /\ \A j \in 1..(i - 1) : SubSeq(line, j, j + 1) # RedditPolicy
         IN  SubSeq(line, 1, k - 1) \o SocialMediaPolicy \o SubSeq(line, k + 2, Len(line))

\* line.replace(',Reddit', <replacement>)
replace_policy(line) == Replace(line, RedditPolicy, SocialMediaPolicy)

fixed_lines(lines) ==
    [i \in 1..Len(lines) |->
        IF i \in lines_to_fix(lines) THEN replace_policy(lines[i]) ELSE lines[i]]

checkFrame == <<runs, cleanupVars, db, db0, dry_run, surge_rules, sr_rules, policyVars,
                zipVars>>

\* fix_surge_config()
FixSurgeConfig ==
    /\ pc = "fix_surge_config"
    /\ IF surge_config = NoFile
       THEN /\ result' = "False"
            /\ UNCHANGED <<surge_config, fixed_count, backup>>
       ELSE /\ fixed_count' = Cardinality(lines_to_fix(surge_config))
            /\ IF fixed_count' > 0
               THEN /\ backup' = surge_config
                    /\ surge_config' = fixed_lines(surge_config)
               ELSE UNCHANGED <<backup, surge_config>>
            /\ result' = "True"
    /\ pc' = "check_surge_config"
    /\ UNCHANGED checkFrame

\* check_surge_config()
CheckSurgeConfig ==
    /\ pc = "check_surge_config"
    /\ result' = IF surge_config = NoFile THEN "False"
                 ELSE IF issues(surge_config) # {} THEN "False"
                 ELSE "True"
    /\ pc' = "done"
    /\ UNCHANGED <<surge_config, fixed_count, backup, checkFrame>>

MaxSurgeLines == 3

\* section headers, a bracketed rule, a comment, an empty line, and rules that
\* differ in where 'Reddit', 'reddit' and DOMAIN-KEYWORD stand
SurgeLines ==
    { <<"[Rule]">>,
      <<"[General]">>,
      <<"[", "DOMAIN-KEYWORD", ",", "reddit", ",", "Reddit", "]">>,
      <<"#", "DOMAIN-KEYWORD", ",", "reddit", ",", "Reddit">>,
      <<>>,
      <<"DOMAIN-KEYWORD", ",", "reddit", ",", "Reddit">>,
      <<" ", "DOMAIN-KEYWORD", ",", "reddit", ",", "Reddit", ",", "no-resolve", " ">>,
      <<"DOMAIN-KEYWORD", ",", "Reddit", ",", "Reddit">>,
      <<"DOMAIN-KEYWORD", ",", "reddit", ",", " ", "Reddit">>,
      <<"DOMAIN-KEYWORD", ",", "reddit", ",", "Reddit", "2">>,
      <<"DOMAIN-SUFFIX", ",", "reddit", ",", "Reddit">>,
      <<"DOMAIN-KEYWORD", ",", "x.com", ",", "Reddit">>,
      <<"domain-keyword", ",", "reddit", ",", "Reddit">>,
      <<"DOMAIN-KEYWORD", ",", "REDDIT", ",", "DIRECT">>,
      <<",", "Reddit", ",", "DOMAIN-KEYWORD">>,
      <<"DOMAIN-KEYWORD", ",", "Reddit">> }

InitCheck ==
    /\ pc = "fix_surge_config"
    /\ runs = 0
    /\ surge_config \in
          {NoFile} \cup UNION { [1..n -> SurgeLines] : n \in 0..MaxSurgeLines }
    /\ dry_run = FALSE
    /\ IdleDatabase
    /\ IdleCleanup
    /\ IdlePolicy
    /\ IdleZip
    /\ IdleFix

NextCheck == FixSurgeConfig \/ CheckSurgeConfig

SpecCheck == InitCheck /\ [][NextCheck]_vars

\* line i stands in the [Rule] section: a '[Rule]' line precedes it with no
\* bracketed line in between
InRuleSection(lines, i) ==
    \E j \in 1..(i - 1) :
        /\ Strip(lines[j]) = <<"[Rule]">>
        /\ \A k \in (j + 1)..i : ~is_section_header(Strip(lines[k]))

\* C10: once fix_surge_config has run on an existing config,
\* check_surge_config finds no invalid line and returns True: no non-comment
\* line of the [Rule] section contains 'reddit' and DOMAIN-KEYWORD and has
\* 'Reddit' as its third comma-separated field.
C10_FixThenCheckSucceeds ==
    (pc = "done" /\ surge_config # NoFile) =>
        /\ result = "True"
        /\ issues(surge_config) = {}
        /\ \A i \in 1..Len(surge_config) :
              LET stripped == Strip(surge_config[i]) IN
              ~ /\ InRuleSection(surge_config, i)
                /\ stripped # <<>> /\ Head(stripped) # "#"
                /\ Contains(LowerStr(stripped), <<"reddit">>)
                /\ Contains(stripped, <<"DOMAIN-KEYWORD">>)
                /\ Len(Split(stripped, ",")) >= 3
                /\ Split(stripped, ",")[3] = <<"Reddit">>

\* the check ran on a config in which fix rewrote a line that the check would
\* have reported, one with ',Reddit' twice
C10_Witness ==
    /\ pc = "done"
    /\ fixed_count > 0
    /\ issues(backup) # {}
    /\ \E i \in issues(backup) :
          /\ Split(Strip(backup[i]), ",")[2] = <<"Reddit">>
          /\ surge_config[i] # backup[i]
    /\ result = "True"

-----------------------------------------------------------------------------
(* merge_sync/remove_firewall_from_singbox.py *)

\* A rule's 'rule_set' value: kind "absent" (no such key), "str" (one tag,
\* tags = <<tag>>) or "list" (tags = the list).
NoRuleSet == [kind |-> "absent", tags |-> <<>>]
StrRuleSet(tag) == [kind |-> "str", tags |-> <<tag>>]
ListRuleSet(tags) == [kind |-> "list", tags |-> tags]

\* 'rule_set' in rule and rule['rule_set'] == tag
rule_set_equals(rule, tag) ==
    rule.rule_set.kind = "str" /\ rule.rule_set.tags = <<tag>>

\* [rs for rs in config['route']['rule_set'] if rs['tag'] != tag]
without_definitions(rule_set, tag) ==
    LET keep(rs) == rs.tag # tag IN SelectSeq(rule_set, keep)

\* [rule for rule in config['route']['rules'] if not (... == tag)]
without_references(rules, tag) ==
    LET keep(rule) == ~rule_set_equals(rule, tag) IN SelectSeq(rules, keep)

\* the config remove_firewall hands to save_config
remove_firewall(config) ==
    [config EXCEPT
        !.route = [rule_set |-> without_definitions(config.route.rule_set,
                                                    "surge-firewallports"),
                   rules |-> without_references(config.route.rules,
                                                "surge-firewallports")]]

routeFrame == <<runs, cleanupVars, shadowrocketVars, singbox_config, surge_groups,
                missing_groups, zipVars, fixVars>>

\* remove_firewall()
RemoveFirewall ==
    /\ pc = "remove_firewall"
    /\ written' = Append(written, remove_firewall(singbox_config))
    /\ pc' = "done"
    /\ UNCHANGED routeFrame

MaxRuleSets == 2
MaxRouteRules == 2

RuleSetDef(tag, url) == [tag |-> tag, url |-> url]
RouteRule(rule_set, outbound) == [rule_set |-> rule_set, outbound |-> outbound]

RouteConfigs(defs, rules) ==
    {[route |-> [rule_set |-> d, rules |-> r]] :
        d \in UNION {[1..n -> defs] : n \in 0..MaxRuleSets},
        r \in UNION {[1..n -> rules] : n \in 0..MaxRouteRules}}

FirewallDefs ==
    { RuleSetDef("surge-firewallports", "u1"), RuleSetDef("surge-firewallports", "u2"),
      RuleSetDef("surge-kemono", "u1") }

FirewallRules ==
    { RouteRule(NoRuleSet, "direct"),
      RouteRule(StrRuleSet("surge-firewallports"), "block"),
      RouteRule(StrRuleSet("surge-kemono"), "proxy"),
      RouteRule(ListRuleSet(<<"surge-firewallports">>), "block"),
      RouteRule(ListRuleSet(<<"surge-kemono", "surge-firewallports">>), "block"),
      RouteRule(ListRuleSet(<<"surge-kemono">>), "proxy") }

InitFirewall ==
    /\ pc = "remove_firewall"
    /\ runs = 0
    /\ singbox_config \in RouteConfigs(FirewallDefs, FirewallRules)
    /\ surge_groups = <<>> /\ missing_groups = <<>> /\ written = <<>>
    /\ IdleCleanup
    /\ IdleShadowrocket
    /\ IdleZip
    /\ IdleFix

NextFirewall == RemoveFirewall

SpecFirewall == InitFirewall /\ [][NextFirewall]_vars

\* the rule names the tag, as a string or inside a list
References(rule, tag) == \E k \in 1..Len(rule.rule_set.tags) : rule.rule_set.tags[k] = tag

Defines(config, tag) ==
    \E k \in 1..Len(config.route.rule_set) : config.route.rule_set[k].tag = tag

IsReferenced(config, tag) ==
    \E k \in 1..Len(config.route.rules) : References(config.route.rules[k], tag)

\* C11: in the config remove_firewall saves, no entry of route.rule_set has
\* the tag 'surge-firewallports' and no entry of route.rules references it,
\* be the rule's rule_set a string or a list.
C11_FirewallGone ==
    \A k \in 1..Len(written) :
        /\ ~Defines(written[k], "surge-firewallports")
        /\ ~IsReferenced(written[k], "surge-firewallports")

-----------------------------------------------------------------------------
(* merge_sync/fix_manual_ruleset_tags.py *)

HyphenTags ==
    {"surge-manual-us", "surge-manual-jp", "surge-manual-west", "surge-manual-global"}

\* tag_mapping[tag] for a tag in tag_mapping, the tag itself otherwise
tag_mapping(tag) ==
    CASE tag = "surge-manual-us" -> "surge-manual_us"
      [] tag = "surge-manual-jp" -> "surge-manual_jp"
      [] tag = "surge-manual-west" -> "surge-manual_west"
      [] tag = "surge-manual-global" -> "surge-manual_global"
      [] OTHER -> tag

\* the first loop: rs['tag'] = tag_mapping[rs['tag']]
fixed_definitions(rule_set) ==
    [i \in 1..Len(rule_set) |-> [rule_set[i] EXCEPT !.tag = tag_mapping(rule_set[i].tag)]]

\* the list branch is skipped
fixed_reference_StringOnly(rule) ==
    IF rule.rule_set.kind = "str"
    THEN [rule EXCEPT !.rule_set.tags = <<tag_mapping(rule.rule_set.tags[1])>>]
    ELSE rule

\* the second loop's body: a string is replaced, a list is replaced entry by entry
fixed_reference(rule) ==
    IF rule.rule_set.kind = "str"
    THEN [rule EXCEPT !.rule_set.tags = <<tag_mapping(rule.rule_set.tags[1])>>]
    ELSE IF rule.rule_set.kind = "list"
    THEN [rule EXCEPT !.rule_set.tags =
              [i \in 1..Len(rule.rule_set.tags) |-> tag_mapping(rule.rule_set.tags[i])]]
    ELSE rule

fixed_references(rules) == [i \in 1..Len(rules) |-> fixed_reference(rules[i])]

\* the third loop: the first definition of each tag, in order
RECURSIVE unique_rulesets(_)
unique_rulesets(rule_set) ==
    IF rule_set = <<>> THEN <<>>
    ELSE LET rest == unique_rulesets(SubSeq(rule_set, 1, Len(rule_set) - 1))
             rs == rule_set[Len(rule_set)]
         IN  IF \E k \in 1..Len(rest) : rest[k].tag = rs.tag THEN rest
             ELSE Append(rest, rs)

\* the config fix_manual_tags hands to save_singbox_config
fix_manual_tags(config) ==
    [config EXCEPT
        !.route = [rule_set |-> unique_rulesets(fixed_definitions(config.route.rule_set)),
                   rules |-> fixed_references(config.route.rules)]]

\* fix_manual_tags()
FixManualTags ==
    /\ pc = "fix_manual_tags"
    /\ written' = Append(written, fix_manual_tags(singbox_config))
    /\ pc' = "done"
    /\ UNCHANGED routeFrame

ManualDefs ==
    { RuleSetDef("surge-manual-us", "u1"), RuleSetDef("surge-manual_us", "u2"),
      RuleSetDef("surge-manual-jp", "u1"), RuleSetDef("surge-manual-global", "u1"),
      RuleSetDef("surge-other", "u1") }

ManualRules ==
    { RouteRule(NoRuleSet, "direct"),
      RouteRule(StrRuleSet("surge-manual-us"), "us"),
      RouteRule(StrRuleSet("surge-manual_us"), "us"),
      RouteRule(StrRuleSet("surge-manual-west"), "west"),
      RouteRule(StrRuleSet("surge-other"), "proxy"),
      RouteRule(ListRuleSet(<<"surge-manual-us", "surge-other">>), "us"),
      RouteRule(ListRuleSet(<<"surge-manual-jp", "surge-manual-global">>), "proxy"),
      RouteRule(ListRuleSet(<<"surge-manual_us", "surge-manual-us">>), "us") }

InitManualTags ==
    /\ pc = "fix_manual_tags"
    /\ runs = 0
    /\ singbox_config \in RouteConfigs(ManualDefs, ManualRules)
    /\ surge_groups = <<>> /\ missing_groups = <<>> /\ written = <<>>
    /\ IdleCleanup
    /\ IdleShadowrocket
    /\ IdleZip
    /\ IdleFix

NextManualTags == FixManualTags

SpecManualTags == InitManualTags /\ [][NextManualTags]_vars

AllTags == HyphenTags \cup {tag_mapping(t) : t \in HyphenTags} \cup {"surge-other"}

\* C12: in the config fix_manual_tags saves, (a) no definition and no rule
\* reference, string or list, uses a hyphen-form manual tag; (b) no two
\* entries of route.rule_set share a tag; (c) every tag that a rule referenced
\* and that had a definition before the run is still referenced and still
\* defined, under its renamed tag if it was a hyphen-form tag.
C12_TagsUnified ==
    \A k \in 1..Len(written) :
        LET w == written[k] IN
        /\ \A h \in HyphenTags : ~Defines(w, h) /\ ~IsReferenced(w, h)
        /\ \A i, j \in 1..Len(w.route.rule_set) :
              w.route.rule_set[i].tag = w.route.rule_set[j].tag => i = j
        /\ \A t \in AllTags :
              (IsReferenced(singbox_config, t) /\ Defines(singbox_config, t)) =>
                  LET now == IF t \in HyphenTags THEN tag_mapping(t) ELSE t
                  IN  IsReferenced(w, now) /\ Defines(w, now)

\* a saved config whose input defined surge-manual-us next to surge-manual_us
\* (one definition dropped as a duplicate) and referenced the hyphen form from
\* inside a list
C12_Witness ==
    /\ pc = "done" /\ written # <<>>
    /\ Defines(singbox_config, "surge-manual-us")
    /\ Defines(singbox_config, "surge-manual_us")
    /\ Len(written[1].route.rule_set) < Len(singbox_config.route.rule_set)
    /\ \E k \in 1..Len(singbox_config.route.rules) :
          /\ singbox_config.route.rules[k].rule_set.kind = "list"
          /\ References(singbox_config.route.rules[k], "surge-manual-us")
          /\ References(written[1].route.rules[k], "surge-manual_us")

-----------------------------------------------------------------------------
(* merge_sync/consolidate_rulesets.py *)

\* read_rules(filepath): the stripped lines that are neither empty nor comments
read_rules(content) ==
    IF content = NoFile THEN {}
    ELSE { Strip(content[i]) : i \in { j \in 1..Len(content) :
               Strip(content[j]) # <<>> /\ Head(Strip(content[j])) # "#" } }

\* write_ruleset(filepath, rules, name), written at time now
write_ruleset(rules, name, now) ==
    << <<"#", " ", "Ruleset: ", name>>,
       <<"#", " ", "Updated: ", ToString(now)>>,
       <<"#", " ", "Rules: ", ToString(Cardinality(rules))>>,
       <<>> >> \o sorted(rules)

\* the sources are never read
all_rules_TargetOnly(files, target, sources) == read_rules(files[target])

\* all_rules once the loop over sources has ended
all_rules(files, target, sources) ==
    read_rules(files[target])
        \cup UNION { read_rules(files[sources[i]]) : i \in 1..Len(sources) }

\* target.replace('.list', '')
ruleset_name(target) ==
    CASE target = "Tencent.list" -> "Tencent"
      [] target = "StreamUS.list" -> "StreamUS"
      [] target = "StreamTW.list" -> "StreamTW"
      [] OTHER -> target

\* RULESET_DIR after merge(target, sources), called at time now
merge(files, target, sources, now) ==
    [files EXCEPT ![target] =
        write_ruleset(all_rules(files, target, sources), ruleset_name(target), now)]

\* merge("Tencent.list", ["QQ.list", "WeChat.list"])
MergeTarget == "Tencent.list"
MergeSources == <<"QQ.list", "WeChat.list">>

\* one run of the call; runs serves as the clock datetime.now() reads
Merge ==
    /\ pc = "merge"
    /\ runs < MaxCalls
    /\ disk' = merge(disk, MergeTarget, MergeSources, runs + 1)
    /\ disk0' = disk
    /\ runs' = runs + 1
    /\ UNCHANGED <<pc, file_content, loaded, shadowrocketVars, policyVars, zipVars, fixVars>>

MaxMergeLines == 2

TargetLines == { RuleA, RuleB, <<" ">> \o RuleB \o <<" ">>, CommentLine }
SourceLines == { RuleA, RuleB, <<" ">> \o RuleA }

MergeContents(lines) == {NoFile} \cup UNION { [1..n -> lines] : n \in 0..MaxMergeLines }

InitMerge ==
    /\ pc = "merge"
    /\ runs = 0
    /\ \E t \in MergeContents(TargetLines), s1, s2 \in MergeContents(SourceLines) :
          disk = (MergeTarget :> t) @@ (MergeSources[1] :> s1) @@ (MergeSources[2] :> s2)
    /\ disk0 = disk
    /\ file_content = <<>>
    /\ loaded = <<>>
    /\ IdleShadowrocket
    /\ IdlePolicy
    /\ IdleZip
    /\ IdleFix

NextMerge == Merge

SpecMerge == InitMerge /\ [][NextMerge]_vars

\* the rules of a file: its non-empty, non-comment lines without surrounding
\* blanks (no rule at all for a missing file)
RulesOf(content) ==
    IF content = NoFile THEN {}
    ELSE { r \in { Strip(content[i]) : i \in 1..Len(content) } : r # <<>> /\ Head(r) # "#" }

RuleLines(content) ==
    LET rule(line) == Strip(line) # <<>> /\ Head(Strip(line)) # "#"
    IN  SelectSeq(content, rule)

\* C13: after merge(target, sources) the target's rules are exactly the union
\* of its previous rules and the rules of every source (a missing file has
\* none), written in sorted order with each rule once; no source file is
\* modified; and a second merge leaves the target's rule set as it was.
C13_MergeIsUnion ==
    runs >= 1 =>
        LET target == disk[MergeTarget]
            written_rules == RuleLines(target)
        IN  /\ target # NoFile
            /\ RulesOf(target) =
                  RulesOf(disk0[MergeTarget])
                      \cup UNION { RulesOf(disk0[MergeSources[i]]) : i \in 1..Len(MergeSources) }
            /\ \A i, j \in 1..Len(written_rules) :
                  i < j => StrLess(written_rules[i], written_rules[j])
            /\ \A i \in 1..Len(MergeSources) : disk[MergeSources[i]] = disk0[MergeSources[i]]
            /\ runs >= 2 => RulesOf(target) = RulesOf(disk0[MergeTarget])

\* the second merge has run: the target holds two rules under its header, one
\* source is missing and the other holds a rule, and the file was rewritten
C13_Witness ==
    /\ runs = 2
    /\ Cardinality(RulesOf(disk[MergeTarget])) = 2
    /\ disk[MergeSources[1]] = NoFile
    /\ RulesOf(disk[MergeSources[2]]) # {}
    /\ disk[MergeTarget] # disk0[MergeTarget]

====
